---- MODULE Spec2Model ----
(***************************************************************************)
(* Document synchronisation and capability routing of the CodeMirror       *)
(* workspace (packages/codemirror-workspace/src/workspace.ts) and of the   *)
(* event-stream operators it is built on.                                  *)
(*                                                                         *)
(* Time is abstracted: a debounce window is the interval during which a    *)
(* timer is pending, and the timer firing is the end of the quiet period.  *)
(* Everything runs on one event loop: a handler is one atomic action, and  *)
(* an async function is cut at its awaits.                                 *)
(***************************************************************************)
EXTENDS Integers, Sequences, FiniteSets, Bags, TLC

(* ------------------------------------------------------------------ *)
(* Bounds and domains                                                  *)
(* ------------------------------------------------------------------ *)

\* Notifications recorded per run.
MaxSent == 4
\* addEventHandlers calls (sessions) per run.
MaxSessions == 2
\* "changes" events the editors emit per run.
MaxChanges == 2
\* LspConnection objects created per run.
MaxConns == 2

URIs == {"a.ts"}
Editors == {"e1", "e2"}
\* openTextDocument calls that can be suspended at the same time.
Calls == {1, 2}

\* Encoding of the JavaScript number NaN (the result of ++undefined).
NaN == -1

\* Registrations addEventHandlers makes; one disposer each.
Registrations ==
    {"changes", "cursorActivity", "mouseover", "cmw:contextMenuOpened",
     "cmw:contextMenuClosed", "contextmenu", "keyMap"}

(* ------------------------------------------------------------------ *)
(* Editor inputs                                                       *)
(* ------------------------------------------------------------------ *)

\* A CodeMirror change object: its origin and the inserted text, one
\* string per line.
Change(origin, text) == [origin |-> origin, text |-> text]

\* The "changes" events an editor emits: each carries the array of the
\* change objects of one operation.
ChangeEvents ==
    { <<Change("+delete", <<"">>)>>,
      <<Change("+input", <<"", "">>)>>,
      <<Change("+input", <<":">>)>>,
      <<Change("paste", <<"x", ",">>)>>,
      <<Change("+input", <<"(">>), Change("+input", <<")">>)>>,
      <<Change("+input", <<"x">>), Change("+input", <<"(">>)>> }

\* The n-th operation of a run as the editor reports it: every change
\* object also carries from, the position it applies at, which tells the
\* edits of a run apart.
Stamped(event, n) ==
    [k \in DOMAIN event |->
        [origin |-> event[k].origin, text |-> event[k].text,
         from |-> [line |-> n, ch |-> k]]]

\* A deletion, and an operation of two changes that ends in "(".
Removal == <<Change("+delete", <<"">>)>>
Typed == <<Change("+input", <<"x">>), Change("+input", <<"(">>)>>

\* token.type as CodeMirror reports it, written as its maximal runs of
\* word characters ("variable-2" is <<"variable", "2">>); null is <<>>.
TokenTypes ==
    { <<>>, <<"variable">>, <<"variable", "2">>, <<"property">>, <<"type">>,
      <<"keyword">>, <<"variables">> }

(* ------------------------------------------------------------------ *)
(* Host configuration                                                  *)
(* ------------------------------------------------------------------ *)

\* The URIs for which options.getLanguageAssociation returns null.
Unassociated == {"b.md"}

\* options.getLanguageAssociation, where it returns an association: one
\* language has no server.
getLanguageAssociation(uri) ==
    IF uri = "c.txt"
    THEN [languageId |-> "plaintext", languageServerIds |-> <<>>]
    ELSE [languageId |-> "typescript", languageServerIds |-> <<"ls">>]

\* Document URIs with and without a configuration.
AnyURIs == {"a.ts", "b.md", "c.txt"}

\* What options.getConnectionString resolves to: nothing, a WebSocket
\* address or the location of a worker.
ConnectionStrings == {"", "ws://ls", "ls.worker.js"}

\* Capabilities every server of the model declares.
completionTriggers == {".", ":"}
signatureHelpTriggers == {"(", ":"}
signatureHelpRetriggers == {","}

(* ------------------------------------------------------------------ *)
(* State                                                               *)
(* ------------------------------------------------------------------ *)

VARIABLES
    editors,                \* Workspace.editors: uri -> editor
    connections,            \* Workspace.connections: server id -> connection
    documentVersions,       \* Workspace.documentVersions: uri -> number
    subscriptionDisposers,  \* Workspace.subscriptionDisposers: editor -> session
    conns,                  \* the LspConnection objects created so far
    sessions,               \* the closures addEventHandlers created
    calls,                  \* suspended openTextDocument calls
    sent,                   \* calls made on connections, in order
    pending,                \* requests whose response has not arrived
    emitted,                \* "changes" events emitted so far
    completionActive,       \* editor.state.completionActive, per editor
    signatureHelp,          \* signature help tooltip shown, per editor
    saves,                  \* suspended saveTextDocument calls
    rootUri,                \* Workspace.rootUri
    streams,                \* subscriptions to streams built from operators
    highlights,             \* document highlights drawn, per editor
    hoverInfo,              \* hover box shown, per editor
    hoverInfoEnabled,       \* hover info not disabled, per editor
    diagnostics,            \* diagnostics shown, per editor
    last                    \* the handler that ran last, and what it saw

vars ==
    <<editors, connections, documentVersions, subscriptionDisposers, conns,
      sessions, calls, sent, pending, emitted, completionActive,
      signatureHelp, saves, rootUri, streams, highlights, hoverInfo,
      hoverInfoEnabled, diagnostics, last>>

\* What the capability renderers other than completion and signature help
\* hold.
views == <<highlights, hoverInfo, hoverInfoEnabled, diagnostics>>

\* What the document handlers other than saveTextDocument leave alone.
others == <<saves, rootUri, streams, views>>

\* The state of the documents, which the stream operators and the URI
\* functions leave alone.
documents ==
    <<editors, connections, documentVersions, subscriptionDisposers, conns,
      sessions, calls, sent, pending, emitted, completionActive,
      signatureHelp, saves, views>>

Idle == [pc |-> "idle"]

\* saveTextDocument calls that can be suspended at the same time.
Saves == {1}

\* A string is the sequence of its characters; this is the root
\* "file:///" with the scheme and authority abbreviated to one character.
Root == <<"r", "/">>

NoDocuments ==
    /\ editors = <<>>
    /\ connections = <<>>
    /\ documentVersions = <<>>
    /\ subscriptionDisposers = <<>>
    /\ conns = <<>>
    /\ sessions = <<>>
    /\ calls = [c \in Calls |-> Idle]
    /\ sent = <<>>
    /\ pending = EmptyBag
    /\ emitted = 0
    /\ completionActive = [e \in Editors |-> FALSE]
    /\ signatureHelp = [e \in Editors |-> FALSE]
    /\ saves = [v \in Saves |-> Idle]
    /\ highlights = [e \in Editors |-> <<>>]
    /\ hoverInfo = [e \in Editors |-> <<>>]
    /\ hoverInfoEnabled = [e \in Editors |-> TRUE]
    /\ diagnostics = [e \in Editors |-> <<>>]

Init ==
    /\ NoDocuments
    /\ rootUri = Root
    /\ streams = <<>>
    /\ last = [op |-> "init"]

(* ------------------------------------------------------------------ *)
(* JavaScript objects as partial functions                             *)
(* ------------------------------------------------------------------ *)

Has(obj, k) == k \in DOMAIN obj
\* obj[k] = v
Put(obj, k, v) == [x \in DOMAIN obj \cup {k} |-> IF x = k THEN v ELSE obj[x]]
\* delete obj[k]
Delete(obj, k) == [x \in DOMAIN obj \ {k} |-> obj[x]]

\* ++obj[k] on a number, on NaN and on a missing key (undefined).
PreIncrement(obj, k) ==
    IF Has(obj, k) /\ obj[k] # NaN THEN obj[k] + 1 ELSE NaN

\* A document notification sent on a connection (version 0: it has none).
Msg(type, uri, conn, version) ==
    [type |-> type, uri |-> uri, conn |-> conn, version |-> version]

\* textDocumentChanged, with its contentChanges.
ChangedMsg(uri, conn, version, contentChanges) ==
    [type |-> "textDocumentChanged", uri |-> uri, conn |-> conn,
     version |-> version, contentChanges |-> contentChanges]

\* A capability request sent on a connection, with its context.
Request(method, uri, conn, triggerKind, triggerCharacter) ==
    [method |-> method, uri |-> uri, conn |-> conn,
     triggerKind |-> triggerKind, triggerCharacter |-> triggerCharacter]

\* A promise continuation is queued: timers and I/O callbacks wait for it.
MicrotaskPending == \E c \in Calls : calls[c].pc = "resume"

Busy == {c \in Calls : calls[c].pc # "idle"}

(* ------------------------------------------------------------------ *)
(* Event streams                                                       *)
(* ------------------------------------------------------------------ *)

\* fromEditorEvent: the sessions whose "changes" listener is on the editor.
Listeners(editor) ==
    {s \in DOMAIN sessions :
        sessions[s].editor = editor /\ "changes" \in sessions[s].registered}

\* debouncedBuffer, on a source value: clear the pending timeout, push the
\* value, set the timeout again.
BufferPush(session, x) ==
    [session EXCEPT !.buffer = Append(@, x), !.timeout = TRUE]

\* debouncedBuffer, after its timeout handed the buffer to the subscriber.
BufferFlush(session) ==
    [session EXCEPT !.buffer = <<>>, !.timeout = FALSE]

\* lspChange: the range and the text of a change, without its origin.
lspChange(change) == [range |-> change.from, text |-> change.text]

\* buffered.flatMap(([_, cs]) => cs.map(lspChange))
RECURSIVE FlatMap(_)
FlatMap(buffered) ==
    IF buffered = <<>> THEN <<>>
    ELSE [k \in DOMAIN Head(buffered) |-> lspChange(Head(buffered)[k])]
            \o FlatMap(Tail(buffered))

\* The single entry sent without incremental sync: { text: cm.getValue() }.
FullText == [text |-> "getValue"]

\* contentChanges of the textDocumentChanged of one batch.
ContentChanges(syncsIncrementally, buffered) ==
    IF syncsIncrementally THEN FlatMap(buffered) ELSE <<FullText>>

\* The change handed on by the map stage: the last change of the last event.
LastChange(buffered) ==
    LET lastChanges == buffered[Len(buffered)]
    IN lastChanges[Len(lastChanges)]

(* ------------------------------------------------------------------ *)
(* Stream operators (utils/events.ts)                                  *)
(* ------------------------------------------------------------------ *)

\* Values a source emits per run.
MaxValues == 3

\* The values of the source, and the subscriptions made to streams over it.
Values == 0..2
Subs == {1, 2}

\* The streams subscribed to are piped(source, debounceTime(ms)) and
\* piped(source, skipDuplicates(equals)), source being fromDomEvent.

\* The equals passed to skipDuplicates: the default (a, b) => a === b, and
\* a comparison that is not transitive.
EqualsOptions == {"===", "near"}
Equals(equals, a, b) ==
    IF equals = "===" THEN a = b ELSE a - b \in {-1, 0, 1}

Unsubscribed == [state |-> "none"]

\* The closure one call of a stream makes: debounceTime's timeout (0 is
\* null) or skipDuplicates' prev (<<>> is null), with what the source
\* handed to it and what it handed to its subscriber.
Subscription(op, equals) ==
    [state |-> "subscribed", op |-> op, equals |-> equals, timeout |-> 0,
     prev |-> <<>>, received |-> <<>>, out |-> <<>>]

\* No subscription, and no timer of the host pending.
StreamsInit ==
    [subs |-> [s \in Subs |-> Unsubscribed], timers |-> {}, nextTimer |-> 1,
     values |-> 0]

\* stream(cb): fromDomEvent adds the listener, the operator makes its
\* closure.
Subscribe(s, op, equals) ==
    /\ streams.subs[s].state = "none"
    /\ \A r \in Subs : r < s => streams.subs[r].state # "none"
    /\ streams' = [streams EXCEPT !.subs[s] = Subscription(op, equals)]
    /\ UNCHANGED <<documents, rootUri, last>>

\* The subscriptions whose listener is on the source.
Listening == {s \in Subs : streams.subs[s].state = "subscribed"}
Debounced == {s \in Listening : streams.subs[s].op = "debounceTime"}

\* The handle setTimeout returns to subscription s when the source calls
\* the listeners in the order they were added.
Handle(s) == streams.nextTimer + Cardinality({r \in Debounced : r < s})

\* A debounceTime that sets a new timeout without clearing the old one.
NotCleared(timers, handles) == timers

\* A debounceTime whose timeout is shared by every subscription: a value
\* clears whatever timer is pending.
ClearedForAll(timers, handles) == {}

\* clearTimeout(timeout), for the handles of the subscriptions called.
Cleared(timers, handles) == {t \in timers : t.id \notin handles}

\* A skipDuplicates that remembers the value it received last.
RememberReceived(sub, x) == <<x>>

\* if (!prev || !equals(prev.value, x))
Passes(sub, x) == sub.prev = <<>> \/ ~Equals(sub.equals, sub.prev[1], x)

\* skipDuplicates: prev = { value: x } when x is handed on.
Remember(sub, x) == IF Passes(sub, x) THEN <<x>> ELSE sub.prev

\* The listener of one subscription called with x.
OnValue(sub, x, handle) ==
    IF sub.op = "debounceTime"
    THEN [sub EXCEPT !.timeout = handle, !.received = Append(@, x)]
    ELSE [sub EXCEPT !.prev = Remember(sub, x),
                     !.out = IF Passes(sub, x) THEN Append(@, x) ELSE @,
                     !.received = Append(@, x)]

\* The source emits x: every listener is called. debounceTime clears its
\* timeout and sets a new one, skipDuplicates hands x on or drops it.
SourceValue(x) ==
    /\ streams.values < MaxValues
    /\ Listening # {}
    /\ streams' =
          [subs |-> [s \in Subs |->
                       IF s \in Listening
                       THEN OnValue(streams.subs[s], x, Handle(s))
                       ELSE streams.subs[s]],
           timers |->
              Cleared(streams.timers,
                      {streams.subs[s].timeout : s \in Debounced})
              \cup {[id |-> Handle(s), sub |-> s, value |-> x] :
                      s \in Debounced},
           nextTimer |-> streams.nextTimer + Cardinality(Debounced),
           values |-> streams.values + 1]
    /\ UNCHANGED <<documents, rootUri, last>>

\* ms after setTimeout the host runs () => cb(x).
TimerFired(t) ==
    /\ t \in streams.timers
    /\ streams' = [streams EXCEPT
                      !.timers = @ \ {t},
                      !.subs[t.sub].out = Append(@, t.value)]
    /\ UNCHANGED <<documents, rootUri, last>>

\* The disposer a subscription returned: removeEventListener(type, cb).
Disposed(s) ==
    /\ streams.subs[s].state = "subscribed"
    /\ streams' = [streams EXCEPT !.subs[s].state = "disposed"]
    /\ UNCHANGED <<documents, rootUri, last>>

(* ------------------------------------------------------------------ *)
(* Trigger decision                                                    *)
(* ------------------------------------------------------------------ *)

\* A filter stage that looks at the origin only.
TextRemovedByOrigin(change) == change.origin = "+delete"

\* The filter stage's test: text removed.
TextRemoved(change) ==
    \/ change.origin = "+delete"
    \/ \A i \in DOMAIN change.text : change.text[i] = ""

\* token.type && /\b(?:variable|property|type)\b/.test(token.type)
IdentifierToken(type) ==
    \E i \in DOMAIN type : type[i] \in {"variable", "property", "type"}

\* change.text[change.text.length - 1]
TriggerCharacter(change) == change.text[Len(change.text)]

\* A subscriber that takes every signature help trigger for a completion
\* trigger.
DecisionAnyTrigger(change, type) ==
    IF TextRemoved(change) THEN "removed"
    ELSE IF IdentifierToken(type) THEN "invoked"
    ELSE IF TriggerCharacter(change)
              \in completionTriggers \cup signatureHelpTriggers
         THEN "triggered"
    ELSE IF TriggerCharacter(change) \in signatureHelpRetriggers
         THEN "signatureHelp"
    ELSE "none"

\* A subscriber that tests the signature help triggers before the
\* completion triggers.
DecisionSignatureFirst(change, type) ==
    IF TextRemoved(change) THEN "removed"
    ELSE IF IdentifierToken(type) THEN "invoked"
    ELSE IF \/ TriggerCharacter(change) \in signatureHelpTriggers
            \/ TriggerCharacter(change) \in signatureHelpRetriggers
         THEN "signatureHelp"
    ELSE IF TriggerCharacter(change) \in completionTriggers THEN "triggered"
    ELSE "none"

\* The branch of the change subscriber that runs, with the filter before it.
Decision(change, type) ==
    IF TextRemoved(change) THEN "removed"
    ELSE IF IdentifierToken(type) THEN "invoked"
    ELSE IF TriggerCharacter(change) \in completionTriggers THEN "triggered"
    ELSE IF \/ TriggerCharacter(change) \in signatureHelpTriggers
            \/ TriggerCharacter(change) \in signatureHelpRetriggers
         THEN "signatureHelp"
    ELSE "none"

\* The requests a branch issues.
Requests(decision, uri, conn, change) ==
    CASE decision = "invoked" ->
           <<Request("getCompletion", uri, conn, "Invoked", "")>>
      [] decision = "triggered" ->
           <<Request("getCompletion", uri, conn, "TriggerCharacter",
                     TriggerCharacter(change))>>
      [] decision = "signatureHelp" ->
           <<Request("getSignatureHelp", uri, conn, "TriggerCharacter",
                     TriggerCharacter(change))>>
      [] OTHER -> <<>>

\* Whether a branch calls hideCompletions(cm).
HidesCompletions(decision) == decision \in {"removed", "signatureHelp", "none"}

\* Whether a branch calls removeSignatureHelp(cm).
RemovesSignatureHelp(decision) ==
    decision \in {"removed", "invoked", "triggered", "signatureHelp", "none"}

(* ------------------------------------------------------------------ *)
(* Workspace.openTextDocument and Workspace.connect                    *)
(* ------------------------------------------------------------------ *)

\* languageServerIds[0]
ServerOf(uri) == getLanguageAssociation(uri).languageServerIds[1]

\* A new LspConnection, before its handshake.
NewConnection(serverId) ==
    [server |-> serverId, alive |-> TRUE, initialized |-> FALSE,
     syncsIncrementally |-> FALSE]

\* The closure of one addEventHandlers call, with the state of its
\* debouncedBuffer and the registrations its disposers undo; the timeout
\* of the debounce of its cursor stream; the timeout (with the event it
\* holds) of the debounce and the prev of the skipDuplicates of its
\* mouseover stream.
NewSession(uri, editor, conn) ==
    [uri |-> uri, editor |-> editor, conn |-> conn,
     registered |-> Registrations,
     disposed |-> [r \in Registrations |-> 0],
     buffer |-> <<>>, timeout |-> FALSE,
     cursorTimeout |-> FALSE, mouseTimeout |-> <<>>, mousePrev |-> <<>>]

\* connect(): the connection that is shared, if there is one.
Existing(serverId) ==
    IF Has(connections, serverId) THEN connections[serverId] ELSE 0

\* if (!assoc) return; ... if (!serverId) return;
Configured(uri) ==
    /\ uri \notin Unassociated
    /\ Len(getLanguageAssociation(uri).languageServerIds) > 0

\* openTextDocument up to its await of connect(), and connect() up to its
\* first await. Without an association or a server id it returns.
OpenTextDocument(c, uri, editor) ==
    /\ calls[c].pc = "idle"
    /\ \A d \in Calls : d < c => calls[d].pc # "idle"
    /\ Len(sessions) + Cardinality(Busy) < MaxSessions
    /\ calls' = IF ~Configured(uri) THEN calls
                ELSE [calls EXCEPT ![c] =
                        [pc |-> IF Existing(ServerOf(uri)) # 0 THEN "resume"
                                ELSE "getConnectionString",
                         uri |-> uri, editor |-> editor,
                         server |-> ServerOf(uri),
                         conn |-> Existing(ServerOf(uri))]]
    /\ last' = [op |-> "openTextDocument", uri |-> uri]
    /\ UNCHANGED <<others, emitted, editors, connections, documentVersions,
                   subscriptionDisposers, conns, sessions, sent, pending,
                   completionActive, signatureHelp>>

\* A connect() that goes on whatever getConnectionString resolved to.
UsableAlways(connectionString) == TRUE

\* if (!connectionString) return;
Usable(connectionString) == connectionString # ""

\* getConnectionString resolved: with a descriptor the transport is made,
\* with none connect() returns nothing and openTextDocument returns.
ConnectionStringResolved(c, connectionString) ==
    /\ calls[c].pc = "getConnectionString"
    /\ ~MicrotaskPending
    /\ calls' = IF Usable(connectionString)
                THEN [calls EXCEPT ![c].pc = "createLspConnection"]
                ELSE [calls EXCEPT ![c] = Idle]
    /\ last' = [op |-> "getConnectionString", call |-> c,
                connectionString |-> connectionString]
    /\ UNCHANGED <<others, emitted, editors, connections, documentVersions,
                   subscriptionDisposers, conns, sessions, sent, pending,
                   completionActive, signatureHelp>>

\* The transport is up: the connection is made and stored, its close
\* handler registered, and initialize is sent.
LspConnectionCreated(c) ==
    /\ calls[c].pc = "createLspConnection"
    /\ ~MicrotaskPending
    /\ Len(conns) < MaxConns
    /\ conns' = Append(conns, NewConnection(calls[c].server))
    /\ connections' = Put(connections, calls[c].server, Len(conns) + 1)
    /\ calls' = [calls EXCEPT ![c].pc = "initialize",
                              ![c].conn = Len(conns) + 1]
    /\ last' = [op |-> "createLspConnection"]
    /\ UNCHANGED <<others, emitted, editors, documentVersions, subscriptionDisposers,
                   sessions, sent, pending, completionActive, signatureHelp>>

\* initialize resolved: initialized is sent and connect() returns.
InitializeResolved(c, incremental) ==
    /\ calls[c].pc = "initialize"
    /\ ~MicrotaskPending
    /\ conns[calls[c].conn].alive
    /\ conns' = [conns EXCEPT ![calls[c].conn].initialized = TRUE,
                              ![calls[c].conn].syncsIncrementally = incremental]
    /\ calls' = [calls EXCEPT ![c].pc = "resume"]
    /\ last' = [op |-> "initialize"]
    /\ UNCHANGED <<others, emitted, editors, connections, documentVersions,
                   subscriptionDisposers, sessions, sent, pending,
                   completionActive, signatureHelp>>

\* An open that goes on counting when the uri already has a version.
OpenedVersionsContinued(versions, uri) ==
    IF Has(versions, uri)
    THEN Put(versions, uri, PreIncrement(versions, uri))
    ELSE Put(versions, uri, 1)

\* An await of connect() rejects: nothing catches it, so connect() and
\* openTextDocument reject, and what was stored before the await stays.
Rejected(c) ==
    [op |-> "connect failed", stage |-> calls[c].pc,
     server |-> calls[c].server, outcome |-> "rejected"]

\* The descriptor resolver fails: await this.getConnectionString rejects.
ConnectionStringRejected(c) ==
    /\ calls[c].pc = "getConnectionString"
    /\ ~MicrotaskPending
    /\ calls' = [calls EXCEPT ![c] = Idle]
    /\ last' = Rejected(c)
    /\ UNCHANGED <<others, emitted, editors, connections, documentVersions,
                   subscriptionDisposers, conns, sessions, sent, pending,
                   completionActive, signatureHelp>>

\* The transport cannot be established: await messageConn rejects.
TransportFailed(c) ==
    /\ calls[c].pc = "createLspConnection"
    /\ ~MicrotaskPending
    /\ calls' = [calls EXCEPT ![c] = Idle]
    /\ last' = Rejected(c)
    /\ UNCHANGED <<others, emitted, editors, connections, documentVersions,
                   subscriptionDisposers, conns, sessions, sent, pending,
                   completionActive, signatureHelp>>

\* The handshake does not succeed: await conn.initialize rejects.
InitializeRejected(c) ==
    /\ calls[c].pc = "initialize"
    /\ ~MicrotaskPending
    /\ calls' = [calls EXCEPT ![c] = Idle]
    /\ last' = Rejected(c)
    /\ UNCHANGED <<others, emitted, editors, connections, documentVersions,
                   subscriptionDisposers, conns, sessions, sent, pending,
                   completionActive, signatureHelp>>

\* this.documentVersions[uri] = 0, then version: ++this.documentVersions[uri]
OpenedVersions(versions, uri) ==
    Put(versions, uri, PreIncrement(Put(versions, uri, 0), uri))

\* openTextDocument after its await: the tables, textDocumentOpened and
\* addEventHandlers.
OpenResumed(c) ==
    /\ calls[c].pc = "resume"
    /\ Len(sent) < MaxSent
    /\ Len(sessions) < MaxSessions
    /\ LET uri == calls[c].uri
           editor == calls[c].editor
           conn == calls[c].conn
           versions == OpenedVersions(documentVersions, uri)
       IN /\ editors' = Put(editors, uri, editor)
          /\ documentVersions' = versions
          /\ sent' = Append(sent, Msg("textDocumentOpened", uri, conn,
                                      versions[uri]))
          /\ sessions' = Append(sessions, NewSession(uri, editor, conn))
          /\ subscriptionDisposers' =
                Put(subscriptionDisposers, editor, Len(sessions) + 1)
          /\ last' = [op |-> "opened"]
    /\ calls' = [calls EXCEPT ![c] = Idle]
    /\ UNCHANGED <<others, emitted, connections, conns, pending, completionActive,
                   signatureHelp>>

\* The connection reports closed: its close handler runs.
ConnectionClosed(k) ==
    /\ k \in DOMAIN conns
    /\ conns[k].alive
    /\ ~MicrotaskPending
    /\ conns' = [conns EXCEPT ![k].alive = FALSE]
    /\ connections' = Delete(connections, conns[k].server)
    /\ last' = [op |-> "onClose"]
    /\ UNCHANGED <<others, emitted, editors, documentVersions, subscriptionDisposers,
                   sessions, calls, sent, pending, completionActive,
                   signatureHelp>>

\* A handler that forwards to the editor the URI was opened with last,
\* open or not.
OpenedWith(uri) ==
    LET S == {s \in DOMAIN sessions : sessions[s].uri = uri}
    IN IF S = {} THEN <<>>
       ELSE <<sessions[CHOOSE s \in S : \A r \in S : r <= s].editor>>

\* const editor = this.editors[uri]; <<>> is undefined.
EditorOf(uri) == IF Has(editors, uri) THEN <<editors[uri]>> ELSE <<>>

\* The diagnostics a server publishes for a URI.
PublishedDiagnostics == {"[]", "[diagnostic]"}

\* A diagnostics notification arrives on a connection whose handshake is
\* over: if (editor) showDiagnostics(editor, diagnostics).
Diagnostics(k, uri, published) ==
    /\ k \in DOMAIN conns
    /\ conns[k].alive
    /\ conns[k].initialized
    /\ ~MicrotaskPending
    /\ diagnostics' =
          IF EditorOf(uri) = <<>> THEN diagnostics
          ELSE [diagnostics EXCEPT ![EditorOf(uri)[1]] = <<published>>]
    /\ last' = [op |-> "onDiagnostics", conn |-> k, uri |-> uri,
                diagnostics |-> published]
    /\ UNCHANGED <<saves, rootUri, streams, highlights, hoverInfo,
                   hoverInfoEnabled, emitted, editors, connections,
                   documentVersions, subscriptionDisposers, conns, sessions,
                   calls, sent, pending, completionActive, signatureHelp>>

(* ------------------------------------------------------------------ *)
(* Capability renderers                                                *)
(* ------------------------------------------------------------------ *)

\* hideCompletions(editor)
hideCompletions(active, editor) == [active EXCEPT ![editor] = FALSE]

\* removeSignatureHelp(editor)
removeSignatureHelp(shown, editor) == [shown EXCEPT ![editor] = FALSE]

\* removeHighlights(editor), removeHoverInfo(editor), removeDiagnostics(editor)
removeHighlights(drawn, editor) == [drawn EXCEPT ![editor] = <<>>]
removeHoverInfo(shown, editor) == [shown EXCEPT ![editor] = <<>>]
removeDiagnostics(shown, editor) == [shown EXCEPT ![editor] = <<>>]

\* showSignatureHelp(editor, help, pos)
showSignatureHelp(shown, editor) == [shown EXCEPT ![editor] = TRUE]

\* showInvokedCompletions / showTriggeredCompletions: nothing for an empty
\* list, else editor.showHint.
showCompletions(active, editor, items) ==
    IF Len(items) = 0 THEN active ELSE [active EXCEPT ![editor] = TRUE]

\* What a completion request resolves to: null, a bare array or a
\* CompletionList.
CompletionResults == {"null", "[]", "[item]", "{items: []}", "{items: [item]}"}

\* if (!Array.isArray(items)) items = items.items
CompletionItems(result) ==
    IF result \in {"[item]", "{items: [item]}"} THEN <<"item">> ELSE <<>>

\* What a signature help request resolves to.
SignatureHelpResults == {"null", "{signatures: []}", "{signatures: [sig]}"}

(* ------------------------------------------------------------------ *)
(* The change stream                                                   *)
(* ------------------------------------------------------------------ *)

\* The sessions whose debounce timeout is pending.
Armed(ss) == {s \in DOMAIN ss : ss[s].timeout}

\* Timers fire in the order of their deadlines: a 50 ms timeout set before
\* a 75 ms delay began fires before it, one set again later need not.
Rearmed(editor) ==
    [v \in Saves |->
        IF saves[v].pc = "delay"
        THEN [saves[v] EXCEPT !.before = @ \ Listeners(editor)]
        ELSE saves[v]]

\* Every listening session's debouncedBuffer takes a "changes" event.
Pushed(editor, event) ==
    [s \in DOMAIN sessions |->
        IF s \in Listeners(editor)
        THEN BufferPush(sessions[s], event) ELSE sessions[s]]

\* The editor emits "changes": every listening session's debouncedBuffer
\* takes the event.
Changes(editor, event) ==
    /\ emitted < MaxChanges
    /\ Listeners(editor) # {}
    /\ sessions' = Pushed(editor, Stamped(event, emitted + 1))
    /\ saves' = Rearmed(editor)
    /\ emitted' = emitted + 1
    /\ last' = [op |-> "changes"]
    /\ UNCHANGED <<rootUri, streams, views, editors, connections, documentVersions,
                   subscriptionDisposers, conns, calls, sent, pending,
                   completionActive, signatureHelp>>

\* version: ++this.documentVersions[uri]
ChangedVersions(versions, uri) == Put(versions, uri, PreIncrement(versions, uri))

\* A request in flight: its response handler's editor and method.
Pending(requests, cm) ==
    SetToBag({[editor |-> cm, method |-> requests[i].method] :
                i \in DOMAIN requests})

\* The timeout of a session's debouncedBuffer fires: the map stage sends
\* textDocumentChanged, the filter stage drops removals, and the subscriber
\* decides on one request. type is the type of the token at the cursor.
ChangesDelivered(s, type) ==
    /\ s \in DOMAIN sessions
    /\ sessions[s].timeout
    /\ ~MicrotaskPending
    /\ Len(sent) < MaxSent
    /\ LET session == sessions[s]
           cm == session.editor
           buffered == session.buffer
           versions == ChangedVersions(documentVersions, session.uri)
           change == LastChange(buffered)
           contentChanges ==
              ContentChanges(conns[session.conn].syncsIncrementally, buffered)
           decision == Decision(change, type)
           requests == Requests(decision, session.uri, session.conn, change)
       IN /\ documentVersions' = versions
          /\ sent' = Append(sent, ChangedMsg(session.uri, session.conn,
                                             versions[session.uri],
                                             contentChanges))
          /\ pending' = pending (+) Pending(requests, cm)
          /\ completionActive' =
                IF HidesCompletions(decision)
                THEN hideCompletions(completionActive, cm)
                ELSE completionActive
          /\ signatureHelp' =
                IF RemovesSignatureHelp(decision)
                THEN removeSignatureHelp(signatureHelp, cm)
                ELSE signatureHelp
          /\ sessions' = [sessions EXCEPT ![s] = BufferFlush(session)]
          /\ last' = [op |-> "delivered", session |-> s, uri |-> session.uri,
                      editor |-> cm, conn |-> session.conn,
                      change |-> change, type |-> type,
                      contentChanges |-> contentChanges,
                      requests |-> requests]
    /\ UNCHANGED <<others, emitted, editors, connections, subscriptionDisposers, conns, calls>>

\* A completion request resolves.
CompletionResolved(p, result) ==
    /\ BagIn(p, pending)
    /\ p.method = "getCompletion"
    /\ ~MicrotaskPending
    /\ pending' = pending (-) SetToBag({p})
    /\ completionActive' =
          IF result = "null" THEN completionActive
          ELSE showCompletions(completionActive, p.editor,
                               CompletionItems(result))
    /\ last' = [op |-> "completion"]
    /\ UNCHANGED <<others, emitted, editors, connections, documentVersions,
                   subscriptionDisposers, conns, sessions, calls, sent,
                   signatureHelp>>

\* A signature help request resolves.
SignatureHelpResolved(p, result) ==
    /\ BagIn(p, pending)
    /\ p.method = "getSignatureHelp"
    /\ ~MicrotaskPending
    /\ pending' = pending (-) SetToBag({p})
    /\ signatureHelp' =
          IF result = "{signatures: [sig]}"
          THEN showSignatureHelp(signatureHelp, p.editor)
          ELSE signatureHelp
    /\ last' = [op |-> "signatureHelp"]
    /\ UNCHANGED <<others, emitted, editors, connections, documentVersions,
                   subscriptionDisposers, conns, sessions, calls, sent,
                   completionActive>>

(* ------------------------------------------------------------------ *)
(* The cursor stream                                                   *)
(* ------------------------------------------------------------------ *)

\* Requests of the cursor and mouseover streams in flight per run.
MaxPending == 2

\* What a document highlight request resolves to.
HighlightResults == {"null", "[]", "[h1]", "[h2]"}

\* The highlights of a result that is not null.
Highlights(result) ==
    IF result = "[h1]" THEN <<"h1">>
    ELSE IF result = "[h2]" THEN <<"h2">>
    ELSE <<>>

\* showHighlights(cm, highlights): the marks are added to the editor.
showHighlights(drawn, editor, marks) == [drawn EXCEPT ![editor] = @ \o marks]

\* The sessions whose listener for an event is on the editor.
On(type, editor) ==
    {s \in DOMAIN sessions :
        sessions[s].editor = editor /\ type \in sessions[s].registered}

\* The editor emits "cursorActivity": debounce(100) clears its timeout and
\* sets it again.
CursorActivity(editor) ==
    /\ On("cursorActivity", editor) # {}
    /\ sessions' = [s \in DOMAIN sessions |->
                      IF s \in On("cursorActivity", editor)
                      THEN [sessions[s] EXCEPT !.cursorTimeout = TRUE]
                      ELSE sessions[s]]
    /\ last' = [op |-> "cursorActivity"]
    /\ UNCHANGED <<others, emitted, editors, connections, documentVersions,
                   subscriptionDisposers, conns, calls, sent, pending,
                   completionActive, signatureHelp>>

\* A filter stage that takes every identifier-like token.
HighlightableIdentifier(type) == IdentifierToken(type)

\* token.type === "variable" || token.type === "property"
Highlightable(type) == type = <<"variable">> \/ type = <<"property">>

\* The timeout of a session's cursor debounce fires: the filter stage
\* passes a variable or a property, for which the subscriber requests the
\* document highlights, and removes the highlights for any other token.
\* type is the type of the token at the cursor.
CursorDelivered(s, type) ==
    /\ s \in DOMAIN sessions
    /\ sessions[s].cursorTimeout
    /\ ~MicrotaskPending
    /\ Highlightable(type) => BagCardinality(pending) < MaxPending
    /\ LET cm == sessions[s].editor
       IN /\ pending' =
                IF Highlightable(type)
                THEN pending (+) SetToBag({[editor |-> cm,
                                            method |-> "getDocumentHighlight"]})
                ELSE pending
          /\ highlights' =
                IF Highlightable(type) THEN highlights
                ELSE removeHighlights(highlights, cm)
          /\ last' = [op |-> "cursor", session |-> s, editor |-> cm,
                      type |-> type]
    /\ sessions' = [sessions EXCEPT ![s].cursorTimeout = FALSE]
    /\ UNCHANGED <<saves, rootUri, streams, hoverInfo, hoverInfoEnabled,
                   diagnostics, emitted, editors, connections,
                   documentVersions, subscriptionDisposers, conns, calls,
                   sent, completionActive, signatureHelp>>

\* A document highlight request resolves: removeHighlights(cm), then
\* if (highlights) showHighlights(cm, highlights).
HighlightResolved(p, result) ==
    /\ BagIn(p, pending)
    /\ p.method = "getDocumentHighlight"
    /\ ~MicrotaskPending
    /\ pending' = pending (-) SetToBag({p})
    /\ highlights' =
          IF result = "null" THEN removeHighlights(highlights, p.editor)
          ELSE showHighlights(removeHighlights(highlights, p.editor),
                              p.editor, Highlights(result))
    /\ last' = [op |-> "highlight", editor |-> p.editor, result |-> result,
                previous |-> highlights[p.editor]]
    /\ UNCHANGED <<saves, rootUri, streams, hoverInfo, hoverInfoEnabled,
                   diagnostics, emitted, editors, connections,
                   documentVersions, subscriptionDisposers, conns, sessions,
                   calls, sent, completionActive, signatureHelp>>

(* ------------------------------------------------------------------ *)
(* The mouseover stream and the context menu events                    *)
(* ------------------------------------------------------------------ *)

\* The document under the pointer: "ab //" on line 1, "ab" on line 2 and
\* nothing on line 3. editor.getTokenAt gives the token that ends at or
\* spans the position; null as a type is <<>>.
Token(string, start, end, type) ==
    [string |-> string, start |-> start, end |-> end, type |-> type]

getTokenAt(pos) ==
    CASE pos.line \in {1, 2} /\ pos.ch \in {1, 2} ->
            Token("ab", 0, 2, <<"variable">>)
      [] pos.line = 1 /\ pos.ch = 3 -> Token(" ", 2, 3, <<>>)
      [] pos.line = 1 /\ pos.ch \in {4, 5} -> Token("//", 3, 5, <<"comment">>)
      [] OTHER -> Token("", 0, 0, <<>>)

\* The "mouseover" events of a run, by their page coordinates; a character
\* is two units wide and a line one unit high.
Mouseovers ==
    { [pageX |-> 2, pageY |-> 1], [pageX |-> 3, pageY |-> 1],
      [pageX |-> 4, pageY |-> 1], [pageX |-> 6, pageY |-> 1],
      [pageX |-> 8, pageY |-> 1], [pageX |-> 2, pageY |-> 2],
      [pageX |-> 0, pageY |-> 3] }

\* editor.coordsChar({ left: ev.pageX, top: ev.pageY }, "page")
coordsChar(ev) == [line |-> ev.pageY, ch |-> ev.pageX \div 2]

\* The equals of the skipDuplicates stage: the same position, or two
\* positions of one line in the same token.
SamePosition(p1, p2) ==
    IF p1.line # p2.line THEN FALSE
    ELSE IF p1.ch = p2.ch THEN TRUE
    ELSE LET t1 == getTokenAt(p1)
             t2 == getTokenAt(p2)
         IN t1.string = t2.string /\ t1.start = t2.start /\ t1.end = t2.end

\* A subscriber that only leaves out comments.
HoverableNotComment(token) == token.type # <<"comment">>

\* The subscriber goes on unless the token is a comment, is empty or has
\* no type.
Hoverable(token) ==
    ~ \/ token.type = <<"comment">>
      \/ Len(token.string) = 0
      \/ token.type = <<>>

\* What a hover request resolves to.
HoverResults == {"null", "hover"}

\* showHoverInfo(editor, pos, hover, renderMarkdown)
showHoverInfo(shown, editor, pos) == [shown EXCEPT ![editor] = <<pos>>]

\* disableHoverInfo(cm) and enableHoverInfo(cm); disabling takes a shown
\* hover box away.
disableHoverInfo(enabled, cm) == [enabled EXCEPT ![cm] = FALSE]
enableHoverInfo(enabled, cm) == [enabled EXCEPT ![cm] = TRUE]

\* The wrapper element emits "mouseover": the filter stage passes it while
\* hover info is enabled, and debounce(100) then holds it, clearing its
\* timeout and setting it again.
Mouseover(editor, ev) ==
    /\ On("mouseover", editor) # {}
    /\ sessions' = [s \in DOMAIN sessions |->
                      IF s \in On("mouseover", editor)
                            /\ hoverInfoEnabled[editor]
                      THEN [sessions[s] EXCEPT !.mouseTimeout = <<ev>>]
                      ELSE sessions[s]]
    /\ last' = [op |-> "mouseover", editor |-> editor]
    /\ UNCHANGED <<others, emitted, editors, connections, documentVersions,
                   subscriptionDisposers, conns, calls, sent, pending,
                   completionActive, signatureHelp>>

\* The timeout of a session's mouseover debounce fires: the map stage
\* finds the position, skipDuplicates drops it when it equals the one it
\* handed on last, and the subscriber removes the hover box and requests
\* the hover info of a token that has any.
MouseDelivered(s) ==
    /\ s \in DOMAIN sessions
    /\ sessions[s].mouseTimeout # <<>>
    /\ ~MicrotaskPending
    /\ LET session == sessions[s]
           editor == session.editor
           pos == coordsChar(session.mouseTimeout[1])
           passes == \/ session.mousePrev = <<>>
                     \/ ~SamePosition(session.mousePrev[1], pos)
           asks == passes /\ Hoverable(getTokenAt(pos))
       IN /\ asks => BagCardinality(pending) < MaxPending
          /\ sessions' = [sessions EXCEPT
                            ![s].mouseTimeout = <<>>,
                            ![s].mousePrev = IF passes THEN <<pos>> ELSE @]
          /\ hoverInfo' = IF passes THEN removeHoverInfo(hoverInfo, editor)
                          ELSE hoverInfo
          /\ pending' =
                IF asks
                THEN pending (+) SetToBag({[editor |-> editor,
                                            method |-> "getHoverInfo",
                                            pos |-> pos]})
                ELSE pending
          /\ last' = [op |-> "mouse", session |-> s, editor |-> editor,
                      pos |-> pos, previous |-> session.mousePrev,
                      delivered |-> passes]
    /\ UNCHANGED <<saves, rootUri, streams, highlights, hoverInfoEnabled,
                   diagnostics, emitted, editors, connections,
                   documentVersions, subscriptionDisposers, conns, calls,
                   sent, completionActive, signatureHelp>>

\* A hover request resolves: if (hover) removeSignatureHelp, showHoverInfo.
HoverResolved(p, result) ==
    /\ BagIn(p, pending)
    /\ p.method = "getHoverInfo"
    /\ ~MicrotaskPending
    /\ pending' = pending (-) SetToBag({p})
    /\ signatureHelp' = IF result = "null" THEN signatureHelp
                        ELSE removeSignatureHelp(signatureHelp, p.editor)
    /\ hoverInfo' = IF result = "null" THEN hoverInfo
                    ELSE showHoverInfo(hoverInfo, p.editor, p.pos)
    /\ last' = [op |-> "hover", editor |-> p.editor, pos |-> p.pos,
                result |-> result, signatureHelp |-> signatureHelp[p.editor]]
    /\ UNCHANGED <<saves, rootUri, streams, highlights, hoverInfoEnabled,
                   diagnostics, emitted, editors, connections,
                   documentVersions, subscriptionDisposers, conns, sessions,
                   calls, sent, completionActive>>

\* The editor signals "cmw:contextMenuOpened": disableHoverInfo (with the
\* hover box taken away), hideCompletions and removeSignatureHelp.
ContextMenuOpened(editor) ==
    /\ On("cmw:contextMenuOpened", editor) # {}
    /\ hoverInfoEnabled' = disableHoverInfo(hoverInfoEnabled, editor)
    /\ hoverInfo' = removeHoverInfo(hoverInfo, editor)
    /\ completionActive' = hideCompletions(completionActive, editor)
    /\ signatureHelp' = removeSignatureHelp(signatureHelp, editor)
    /\ last' = [op |-> "cmw:contextMenuOpened", editor |-> editor]
    /\ UNCHANGED <<saves, rootUri, streams, highlights, diagnostics, emitted,
                   editors, connections, documentVersions,
                   subscriptionDisposers, conns, sessions, calls, sent,
                   pending>>

\* The editor signals "cmw:contextMenuClosed": enableHoverInfo.
ContextMenuClosed(editor) ==
    /\ On("cmw:contextMenuClosed", editor) # {}
    /\ hoverInfoEnabled' = enableHoverInfo(hoverInfoEnabled, editor)
    /\ last' = [op |-> "cmw:contextMenuClosed", editor |-> editor]
    /\ UNCHANGED <<saves, rootUri, streams, highlights, hoverInfo,
                   diagnostics, emitted, editors, connections,
                   documentVersions, subscriptionDisposers, conns, sessions,
                   calls, sent, pending, completionActive, signatureHelp>>

(* ------------------------------------------------------------------ *)
(* Workspace.closeTextDocument                                         *)
(* ------------------------------------------------------------------ *)

\* for (const dispose of disposers) dispose(); disposers.length = 0
\* Each disposer removes its listener; none clears a pending timeout.
Dispose(session) ==
    [session EXCEPT
        !.registered = {},
        !.disposed = [r \in Registrations |->
                        IF r \in session.registered THEN @[r] + 1 ELSE @[r]]]

\* removeEventHandlers(editor), the subscription part.
DisposedSessions(editor) ==
    IF Has(subscriptionDisposers, editor)
    THEN [sessions EXCEPT ![subscriptionDisposers[editor]] = Dispose(@)]
    ELSE sessions

\* The statements of closeTextDocument after its early returns, in the
\* order in which they run.
CloseSteps ==
    <<"delete editors[uri]", "delete documentVersions[uri]",
      "removeEventHandlers", "textDocumentClosed">>

\* closeTextDocument. With no connection it returns early; with no editor
\* for the uri, removeEventHandlers(undefined) throws in hideCompletions.
CloseTextDocument(uri) ==
    LET serverId == ServerOf(uri)
    IN
    IF ~Has(connections, serverId)
    THEN /\ last' = [op |-> "closeTextDocument", uri |-> uri,
                     outcome |-> "no connection"]
         /\ UNCHANGED <<others, emitted, editors, connections, documentVersions,
                        subscriptionDisposers, conns, sessions, calls, sent,
                        pending, completionActive, signatureHelp>>
    ELSE IF ~Has(editors, uri)
    THEN /\ documentVersions' = Delete(documentVersions, uri)
         /\ last' = [op |-> "closeTextDocument", uri |-> uri,
                     outcome |-> "TypeError"]
         /\ UNCHANGED <<others, emitted, editors, connections, subscriptionDisposers, conns,
                        sessions, calls, sent, pending, completionActive,
                        signatureHelp>>
    ELSE LET editor == editors[uri]
         IN /\ Len(sent) < MaxSent
            /\ editors' = Delete(editors, uri)
            /\ documentVersions' = Delete(documentVersions, uri)
            /\ sessions' = DisposedSessions(editor)
            /\ subscriptionDisposers' = Delete(subscriptionDisposers, editor)
            /\ completionActive' = hideCompletions(completionActive, editor)
            /\ signatureHelp' = removeSignatureHelp(signatureHelp, editor)
            /\ diagnostics' = removeDiagnostics(diagnostics, editor)
            /\ hoverInfo' = removeHoverInfo(hoverInfo, editor)
            /\ highlights' = removeHighlights(highlights, editor)
            /\ sent' = Append(sent, Msg("textDocumentClosed", uri,
                                        connections[serverId], 0))
            /\ last' = [op |-> "closeTextDocument", uri |-> uri,
                        outcome |-> "closed", editor |-> editor,
                        steps |-> CloseSteps]
            /\ UNCHANGED <<saves, rootUri, streams, hoverInfoEnabled, emitted,
                           connections, conns, calls, pending>>

(* ------------------------------------------------------------------ *)
(* Workspace.saveTextDocument                                          *)
(* ------------------------------------------------------------------ *)

\* What getEditsBeforeSave resolves to: null, no edit, or one edit.
EditResults == {"null", "[]", "[edit]"}

\* if (edits): null is falsy, every array is truthy.
Truthy(edits) == edits # "null"

\* The "changes" event applyEdits(editor, edits, "beforeSave") causes.
BeforeSave == <<Change("beforeSave", <<"y">>)>>

\* saveTextDocument up to its await: the early returns, textDocumentWillSave
\* and the request for the edits.
SaveTextDocument(v, uri) ==
    /\ saves[v].pc = "idle"
    /\ Has(connections, ServerOf(uri))
    /\ Has(editors, uri)
    /\ Len(sent) < MaxSent
    /\ sent' = Append(sent, Msg("textDocumentWillSave", uri,
                                connections[ServerOf(uri)], 0))
    /\ saves' = [saves EXCEPT ![v] =
                    [pc |-> "getEditsBeforeSave", uri |-> uri,
                     editor |-> editors[uri],
                     conn |-> connections[ServerOf(uri)],
                     edits |-> "", before |-> {}]]
    /\ last' = [op |-> "saveTextDocument", uri |-> uri]
    /\ UNCHANGED <<rootUri, streams, views, emitted, editors, connections,
                   documentVersions, subscriptionDisposers, conns, sessions,
                   calls, pending, completionActive, signatureHelp>>

\* getEditsBeforeSave resolved. Without edits textDocumentSaved is sent at
\* once; with edits they are applied and the delay begins.
EditsResolved(v, edits) ==
    /\ saves[v].pc = "getEditsBeforeSave"
    /\ ~MicrotaskPending
    /\ IF ~Truthy(edits)
       THEN /\ Len(sent) < MaxSent
            /\ sent' = Append(sent, Msg("textDocumentSaved", saves[v].uri,
                                        saves[v].conn, 0))
            /\ saves' = [saves EXCEPT ![v] = Idle]
            /\ last' = [op |-> "getEditsBeforeSave", save |-> v,
                        uri |-> saves[v].uri, editor |-> saves[v].editor,
                        edits |-> edits, saved |-> TRUE]
            /\ UNCHANGED <<sessions, emitted>>
       ELSE /\ edits = "[edit]" => emitted < MaxChanges
            /\ sessions' = IF edits = "[edit]"
                           THEN Pushed(saves[v].editor,
                                       Stamped(BeforeSave, emitted + 1))
                           ELSE sessions
            /\ emitted' = IF edits = "[edit]" THEN emitted + 1 ELSE emitted
            /\ saves' = [saves EXCEPT ![v].pc = "delay", ![v].edits = edits,
                                      ![v].before = Armed(sessions')]
            /\ last' = [op |-> "getEditsBeforeSave", save |-> v,
                        uri |-> saves[v].uri, editor |-> saves[v].editor,
                        edits |-> edits, saved |-> FALSE]
            /\ UNCHANGED sent
    /\ UNCHANGED <<rootUri, streams, views, editors, connections, documentVersions,
                   subscriptionDisposers, conns, calls, pending,
                   completionActive, signatureHelp>>

\* delay(CHANGES_FRAME * 1.5) elapsed: textDocumentSaved is sent.
DelayElapsed(v) ==
    /\ saves[v].pc = "delay"
    /\ ~MicrotaskPending
    /\ saves[v].before \cap Armed(sessions) = {}
    /\ Len(sent) < MaxSent
    /\ sent' = Append(sent, Msg("textDocumentSaved", saves[v].uri,
                                saves[v].conn, 0))
    /\ saves' = [saves EXCEPT ![v] = Idle]
    /\ last' = [op |-> "delay", save |-> v, uri |-> saves[v].uri,
                editor |-> saves[v].editor, edits |-> saves[v].edits]
    /\ UNCHANGED <<rootUri, streams, views, emitted, editors, connections,
                   documentVersions, subscriptionDisposers, conns, sessions,
                   calls, pending, completionActive, signatureHelp>>

(* ------------------------------------------------------------------ *)
(* Workspace.constructor (rootUri) and Workspace.getDocumentUri        *)
(* ------------------------------------------------------------------ *)

\* Length of the rootUri options and of the paths.
MaxLen == 3

\* The strings over "/" and one other character, up to a length.
Strings(n) == UNION {[1..k -> {"/", "a"}] : k \in 0..n}

\* str.endsWith("/")
EndsWithSlash(str) == Len(str) > 0 /\ str[Len(str)] = "/"

\* options.rootUri + (!options.rootUri.endsWith("/") ? "/" : "")
RootUri(option) == option \o (IF ~EndsWithSlash(option) THEN <<"/">> ELSE <<>>)

\* path.replace(/^\/+/, "")
RECURSIVE WithoutLeadingSlashes(_)
WithoutLeadingSlashes(path) ==
    IF path # <<>> /\ Head(path) = "/"
    THEN WithoutLeadingSlashes(Tail(path))
    ELSE path

\* this.rootUri + path.replace(/^\/+/, "")
getDocumentUri(path) == rootUri \o WithoutLeadingSlashes(path)

\* A handler resolves a path.
ResolvePath(path) ==
    /\ last' = [op |-> "getDocumentUri", path |-> path,
                uri |-> getDocumentUri(path)]
    /\ UNCHANGED <<documents, rootUri, streams>>

(* ------------------------------------------------------------------ *)
(* Specification                                                       *)
(* ------------------------------------------------------------------ *)

Next ==
    \/ \E c \in Calls, uri \in URIs, editor \in Editors :
          OpenTextDocument(c, uri, editor)
    \/ \E c \in Calls : ConnectionStringResolved(c, "ws://ls")
    \/ \E c \in Calls : LspConnectionCreated(c)
    \/ \E c \in Calls, incremental \in BOOLEAN :
          InitializeResolved(c, incremental)
    \/ \E c \in Calls : OpenResumed(c)
    \/ \E k \in DOMAIN conns : ConnectionClosed(k)
    \/ \E editor \in Editors, event \in {Removal, Typed} :
          Changes(editor, event)
    \/ \E s \in DOMAIN sessions, type \in {<<>>, <<"variable">>} :
          ChangesDelivered(s, type)
    \/ \E p \in BagToSet(pending), result \in CompletionResults :
          CompletionResolved(p, result)
    \/ \E p \in BagToSet(pending), result \in SignatureHelpResults :
          SignatureHelpResolved(p, result)
    \/ \E uri \in URIs : CloseTextDocument(uri)

Spec == Init /\ [][Next]_vars

\* One editor, opened again only after it was closed, with every change
\* event and every token type: the specification of the trigger decision.
TriggerNext ==
    \/ ~Has(editors, "a.ts") /\ OpenTextDocument(1, "a.ts", "e1")
    \/ ConnectionStringResolved(1, "ws://ls")
    \/ LspConnectionCreated(1)
    \/ \E incremental \in BOOLEAN : InitializeResolved(1, incremental)
    \/ OpenResumed(1)
    \/ \E event \in ChangeEvents : Changes("e1", event)
    \/ \E s \in DOMAIN sessions, type \in TokenTypes : ChangesDelivered(s, type)
    \/ \E p \in BagToSet(pending), result \in CompletionResults :
          CompletionResolved(p, result)
    \/ \E p \in BagToSet(pending), result \in SignatureHelpResults :
          SignatureHelpResolved(p, result)
    \/ CloseTextDocument("a.ts")

TriggerSpec == Init /\ [][TriggerNext]_vars

\* The document lifecycle alone: one editor that is opened, opened again,
\* edited by deletions (which issue no request) and closed.
LifecycleNext ==
    \/ \E c \in Calls : OpenTextDocument(c, "a.ts", "e1")
    \/ \E c \in Calls : ConnectionStringResolved(c, "ws://ls")
    \/ \E c \in Calls : LspConnectionCreated(c)
    \/ \E c \in Calls : InitializeResolved(c, TRUE)
    \/ \E c \in Calls : OpenResumed(c)
    \/ Changes("e1", Removal)
    \/ \E s \in DOMAIN sessions : ChangesDelivered(s, <<>>)
    \/ CloseTextDocument("a.ts")

LifecycleSpec == Init /\ [][LifecycleNext]_vars

\* Opening documents with and without a configuration, over connections
\* that may fail to come up.
ConnectNext ==
    \/ \E c \in Calls, uri \in AnyURIs : OpenTextDocument(c, uri, "e1")
    \/ \E c \in Calls, connectionString \in ConnectionStrings :
          ConnectionStringResolved(c, connectionString)
    \/ \E c \in Calls : ConnectionStringRejected(c)
    \/ \E c \in Calls : LspConnectionCreated(c)
    \/ \E c \in Calls : TransportFailed(c)
    \/ \E c \in Calls : InitializeResolved(c, TRUE)
    \/ \E c \in Calls : InitializeRejected(c)
    \/ \E c \in Calls : OpenResumed(c)
    \/ \E k \in DOMAIN conns : ConnectionClosed(k)
    \/ CloseTextDocument("a.ts")

ConnectSpec == Init /\ [][ConnectNext]_vars

\* One editor whose cursor moves over tokens of every type.
CursorNext ==
    \/ ~Has(editors, "a.ts") /\ OpenTextDocument(1, "a.ts", "e1")
    \/ ConnectionStringResolved(1, "ws://ls")
    \/ LspConnectionCreated(1)
    \/ InitializeResolved(1, TRUE)
    \/ OpenResumed(1)
    \/ CursorActivity("e1")
    \/ \E s \in DOMAIN sessions, type \in TokenTypes : CursorDelivered(s, type)
    \/ \E p \in BagToSet(pending), result \in HighlightResults :
          HighlightResolved(p, result)
    \/ CloseTextDocument("a.ts")

CursorSpec == Init /\ [][CursorNext]_vars

\* One editor under the pointer, in which "(" is typed once so that
\* signature help can be shown.
HoverNext ==
    \/ sessions = <<>> /\ OpenTextDocument(1, "a.ts", "e1")
    \/ ConnectionStringResolved(1, "ws://ls")
    \/ LspConnectionCreated(1)
    \/ InitializeResolved(1, TRUE)
    \/ OpenResumed(1)
    \/ emitted = 0 /\ Changes("e1", Typed)
    \/ \E s \in DOMAIN sessions : ChangesDelivered(s, <<>>)
    \/ \E p \in BagToSet(pending) :
          SignatureHelpResolved(p, "{signatures: [sig]}")
    \/ \E ev \in Mouseovers : Mouseover("e1", ev)
    \/ \E s \in DOMAIN sessions : MouseDelivered(s)
    \/ \E p \in BagToSet(pending), result \in HoverResults :
          HoverResolved(p, result)

HoverSpec == Init /\ [][HoverNext]_vars

\* One editor under the pointer, with a context menu that opens and
\* closes.
MenuNext ==
    \/ sessions = <<>> /\ OpenTextDocument(1, "a.ts", "e1")
    \/ ConnectionStringResolved(1, "ws://ls")
    \/ LspConnectionCreated(1)
    \/ InitializeResolved(1, TRUE)
    \/ OpenResumed(1)
    \/ \E ev \in Mouseovers : Mouseover("e1", ev)
    \/ \E s \in DOMAIN sessions : MouseDelivered(s)
    \/ \E p \in BagToSet(pending), result \in HoverResults :
          HoverResolved(p, result)
    \/ ContextMenuOpened("e1")
    \/ ContextMenuClosed("e1")

MenuSpec == Init /\ [][MenuNext]_vars

\* A document that is opened, closed and opened again with either editor,
\* and a server that publishes diagnostics for it and for another URI.
DiagnosticsNext ==
    \/ \E editor \in Editors :
          ~Has(editors, "a.ts") /\ OpenTextDocument(1, "a.ts", editor)
    \/ ConnectionStringResolved(1, "ws://ls")
    \/ LspConnectionCreated(1)
    \/ InitializeResolved(1, TRUE)
    \/ OpenResumed(1)
    \/ \E k \in DOMAIN conns, uri \in AnyURIs,
          published \in PublishedDiagnostics : Diagnostics(k, uri, published)
    \/ CloseTextDocument("a.ts")

DiagnosticsSpec == Init /\ [][DiagnosticsNext]_vars

\* A workspace constructed with any rootUri option, resolving paths.
UriInit ==
    /\ NoDocuments
    /\ streams = <<>>
    /\ \E option \in Strings(MaxLen) :
          /\ rootUri = RootUri(option)
          /\ last = [op |-> "constructor", option |-> option]

UriNext == \E path \in Strings(MaxLen) : ResolvePath(path)

UriSpec == UriInit /\ [][UriNext]_vars

\* Subscriptions to streams over one source.
StreamInit ==
    /\ NoDocuments
    /\ rootUri = Root
    /\ streams = StreamsInit
    /\ last = [op |-> "init"]

StreamNext ==
    \/ \E s \in Subs : Subscribe(s, "debounceTime", "===")
    \/ \E s \in Subs, equals \in EqualsOptions :
          Subscribe(s, "skipDuplicates", equals)
    \/ \E x \in Values : SourceValue(x)
    \/ \E t \in streams.timers : TimerFired(t)
    \/ \E s \in Subs : Disposed(s)

StreamSpec == StreamInit /\ [][StreamNext]_vars

\* One editor that is opened, edited by the user, saved and closed.
SaveNext ==
    \/ ~Has(editors, "a.ts") /\ OpenTextDocument(1, "a.ts", "e1")
    \/ ConnectionStringResolved(1, "ws://ls")
    \/ LspConnectionCreated(1)
    \/ \E incremental \in BOOLEAN : InitializeResolved(1, incremental)
    \/ OpenResumed(1)
    \/ Changes("e1", Removal)
    \/ \E s \in DOMAIN sessions : ChangesDelivered(s, <<>>)
    \/ \E v \in Saves : SaveTextDocument(v, "a.ts")
    \/ \E v \in Saves, edits \in EditResults : EditsResolved(v, edits)
    \/ \E v \in Saves : DelayElapsed(v)
    \/ CloseTextDocument("a.ts")

SaveSpec == Init /\ [][SaveNext]_vars

(* ------------------------------------------------------------------ *)
(* Properties                                                          *)
(* ------------------------------------------------------------------ *)

Opened == "textDocumentOpened"
Changed == "textDocumentChanged"
Closed == "textDocumentClosed"

Largest(S) == CHOOSE x \in S : \A y \in S : y <= x
Smallest(S) == CHOOSE x \in S : \A y \in S : x <= y

\* The position of the last textDocumentClosed of uri before i, or 0.
LastClosed(i, uri) ==
    LET S == {j \in 1..(i - 1) : sent[j].type = Closed /\ sent[j].uri = uri}
    IN IF S = {} THEN 0 ELSE Largest(S)

\* The position of the textDocumentOpened that started the open lifetime
\* of uri that position i falls in, or 0 when uri is not open at i.
LifetimeStart(i, uri) ==
    LET S == {j \in (LastClosed(i, uri) + 1)..i :
                sent[j].type = Opened /\ sent[j].uri = uri}
    IN IF S = {} THEN 0 ELSE Smallest(S)

\* How many versions were sent for uri in its lifetime, up to position i.
VersionsSent(i, uri) ==
    Cardinality({j \in LifetimeStart(i, uri)..i :
                    sent[j].uri = uri /\ sent[j].type \in {Opened, Changed}})

\* C1: while a document is open, the versions sent for its URI are
\* 1, 2, 3, ...: textDocumentOpened carries 1, every textDocumentChanged the
\* previous version plus 1, and none is skipped or sent twice.
C1_ContiguousVersions ==
    \A i \in DOMAIN sent :
        (sent[i].type \in {Opened, Changed}
            /\ LifetimeStart(i, sent[i].uri) # 0)
        => sent[i].version = VersionsSent(i, sent[i].uri)

\* C2: connect calls for one server ID that overlap create one connection:
\* no two live connections exist for the same server ID.
C2_OneConnectionPerServer ==
    \A a \in DOMAIN conns, b \in DOMAIN conns :
        (conns[a].server = conns[b].server /\ conns[a].alive /\ conns[b].alive)
        => a = b

\* The number of change objects in a batch of "changes" events.
RECURSIVE Edits(_)
Edits(buffered) ==
    IF buffered = <<>> THEN 0
    ELSE Len(Head(buffered)) + Edits(Tail(buffered))

\* C3: the change events of one debounce window of an open document give
\* exactly one textDocumentChanged, with the prior version plus 1 and one
\* content change per edit (incremental) or one full-text entry; so there
\* are never more notifications than change events.
C3_OneChangedPerWindow ==
    /\ [](Cardinality({i \in DOMAIN sent : sent[i].type = Changed}) <= emitted)
    /\ [][\A s \in DOMAIN sessions :
            (last'.op = "delivered" /\ last'.session = s
                /\ Has(editors, sessions[s].uri))
            => /\ Len(sent') = Len(sent) + 1
               /\ sent'[Len(sent')].type = Changed
               /\ sent'[Len(sent')].uri = sessions[s].uri
               /\ sent'[Len(sent')].version =
                     documentVersions[sessions[s].uri] + 1
               /\ documentVersions'[sessions[s].uri] =
                     documentVersions[sessions[s].uri] + 1
               /\ IF conns[sessions[s].conn].syncsIncrementally
                  THEN Len(last'.contentChanges) = Edits(sessions[s].buffer)
                  ELSE last'.contentChanges = <<FullText>>]_vars

\* C4: every textDocumentChanged and textDocumentClosed of a URI comes
\* after a textDocumentOpened of that URI with no textDocumentClosed
\* between them.
C4_OpenedFirst ==
    \A i \in DOMAIN sent :
        sent[i].type \in {Changed, Closed}
        => LifetimeStart(i, sent[i].uri) # 0

\* closeTextDocument just ran on a document that was open.
ClosedAnOpenDocument ==
    /\ last.op = "closeTextDocument"
    /\ \/ last.outcome = "closed"
       \/ last.outcome = "no connection" /\ Has(editors, last.uri)

\* C5: closeTextDocument on an open document removes the URI from both
\* tables, runs every disposer registered for the editor exactly once,
\* clears completion and signature help, and sends textDocumentClosed.
C5_CloseUnwinds ==
    ClosedAnOpenDocument
    => /\ last.outcome = "closed"
       /\ ~Has(editors, last.uri)
       /\ ~Has(documentVersions, last.uri)
       /\ \A s \in DOMAIN sessions :
             sessions[s].editor = last.editor
             => /\ sessions[s].registered = {}
                /\ \A r \in Registrations : sessions[s].disposed[r] = 1
       /\ ~Has(subscriptionDisposers, last.editor)
       /\ ~completionActive[last.editor]
       /\ ~signatureHelp[last.editor]
       /\ sent[Len(sent)].type = Closed
       /\ sent[Len(sent)].uri = last.uri

\* C6: closeTextDocument on a URI with no open editor sends nothing, runs
\* no disposer, changes no table and raises no error.
C6_CloseOfClosedIsNoOp ==
    [][(last'.op = "closeTextDocument" /\ ~Has(editors, last'.uri))
        => /\ last'.outcome # "TypeError"
           /\ UNCHANGED <<editors, connections, documentVersions,
                          subscriptionDisposers, sessions, sent>>]_vars

\* The claims' own reading of a change and of a token.
ClaimedRemoval(change) ==
    \/ change.origin = "+delete"
    \/ \A i \in 1..Len(change.text) : Len(change.text[i]) = 0

ClaimedIdentifier(type) ==
    \E i \in 1..Len(type) : type[i] = "variable" \/ type[i] = "property"
                               \/ type[i] = "type"

LastInserted(change) == change.text[Len(change.text)]

CompletionRequested ==
    \E i \in DOMAIN last.requests : last.requests[i].method = "getCompletion"

\* C7: a delivered batch whose last change is a deletion issues no
\* completion and no signature help request, leaves neither shown, and its
\* textDocumentChanged is sent.
C7_RemovalSuppresses ==
    (last.op = "delivered" /\ ClaimedRemoval(last.change))
    => /\ last.requests = <<>>
       /\ ~completionActive[last.editor]
       /\ ~signatureHelp[last.editor]
       /\ sent[Len(sent)].type = Changed
       /\ sent[Len(sent)].uri = last.uri

\* A batch ending in a line break (every inserted line empty, origin not
\* "+delete") was delivered with an identifier under the cursor.
C7_Witness ==
    /\ last.op = "delivered"
    /\ ClaimedRemoval(last.change)
    /\ last.change.origin # "+delete"
    /\ ClaimedIdentifier(last.type)
    /\ last.requests = <<>>

\* C8 as stated: a batch whose last inserted text is no declared completion
\* trigger issues no completion request.
C8_NoCompletionWithoutTrigger ==
    (last.op = "delivered" /\ LastInserted(last.change) \notin completionTriggers)
    => ~CompletionRequested

\* C8 amended: such a batch issues no completion request of kind
\* TriggerCharacter, and none at all unless the token at the cursor is an
\* identifier and the batch is not a deletion.
C8_OnlyInvokedWithoutTrigger ==
    (last.op = "delivered" /\ LastInserted(last.change) \notin completionTriggers)
    => /\ \A i \in DOMAIN last.requests :
             last.requests[i].method = "getCompletion"
             => last.requests[i].triggerKind = "Invoked"
       /\ CompletionRequested
             => ClaimedIdentifier(last.type) /\ ~ClaimedRemoval(last.change)

\* "(" was typed after a keyword: signature help is requested, completion
\* is not.
C8_Witness ==
    /\ last.op = "delivered"
    /\ LastInserted(last.change) = "("
    /\ ~ClaimedIdentifier(last.type)
    /\ Len(last.requests) = 1
    /\ ~CompletionRequested

\* C9: a batch that is no deletion takes exactly one branch, in this order:
\* identifier token, Invoked completion; declared completion trigger,
\* TriggerCharacter completion; declared signature help trigger or
\* re-trigger, signature help; else no request and both suppressed.
C9_OneBranchInOrder ==
    (last.op = "delivered" /\ ~ClaimedRemoval(last.change))
    => LET ch == LastInserted(last.change)
       IN /\ Len(last.requests) <= 1
          /\ IF ClaimedIdentifier(last.type)
             THEN last.requests =
                    <<Request("getCompletion", last.uri, last.conn,
                              "Invoked", "")>>
             ELSE IF ch \in completionTriggers
             THEN last.requests =
                    <<Request("getCompletion", last.uri, last.conn,
                              "TriggerCharacter", ch)>>
             ELSE IF ch \in signatureHelpTriggers \cup signatureHelpRetriggers
             THEN last.requests =
                    <<Request("getSignatureHelp", last.uri, last.conn,
                              "TriggerCharacter", ch)>>
             ELSE /\ last.requests = <<>>
                  /\ ~completionActive[last.editor]
                  /\ ~signatureHelp[last.editor]
          /\ \A i \in DOMAIN last.requests :
                BagIn([editor |-> last.editor,
                       method |-> last.requests[i].method], pending)

\* ":" (a completion trigger and a signature help trigger) was typed after
\* a keyword: the completion branch ran.
C9_Witness ==
    /\ last.op = "delivered"
    /\ LastInserted(last.change) = ":"
    /\ ~ClaimedIdentifier(last.type)
    /\ last.requests =
          <<Request("getCompletion", last.uri, last.conn,
                    "TriggerCharacter", ":")>>

\* C10: the completion popup and the signature help of an editor are never
\* shown at the same time.
C10_NeverBothShown ==
    \A e \in Editors : ~(completionActive[e] /\ signatureHelp[e])

\* C11: every openTextDocument that succeeds sends textDocumentOpened with
\* version 1, also when the URI was open before and change notifications
\* were sent in that lifetime.
C11_OpenedWithVersionOne ==
    /\ \A i \in DOMAIN sent : sent[i].type = Opened => sent[i].version = 1
    /\ last.op = "opened"
       => /\ sent # <<>>
          /\ sent[Len(sent)].type = Opened
          /\ documentVersions[sent[Len(sent)].uri] = 1

\* The document was opened, changed (version 2), closed and opened again.
C11_Witness ==
    /\ last.op = "opened"
    /\ Len(sent) = 4
    /\ sent[1].type = Opened
    /\ sent[2].type = Changed /\ sent[2].version = 2
    /\ sent[3].type = Closed
    /\ sent[4].type = Opened /\ sent[4].version = 1

WillSave == "textDocumentWillSave"
Saved == "textDocumentSaved"

\* The pre-save edit request returned no edits: an absent result or an
\* empty list.
NoEdits(edits) == edits = "null" \/ edits = "[]"

\* C12: when the pre-save edit request of a save returns no edits,
\* textDocumentSaved is sent as soon as the request resolves, after
\* textDocumentWillSave, with no delay.
C12_SavedAtOnceWithoutEdits ==
    (last.op = "getEditsBeforeSave" /\ NoEdits(last.edits))
    => /\ saves[last.save].pc = "idle"
       /\ Len(sent) >= 2
       /\ sent[Len(sent)].type = Saved
       /\ sent[Len(sent)].uri = last.uri
       /\ \E i \in 1..(Len(sent) - 1) :
             sent[i].type = WillSave /\ sent[i].uri = last.uri

\* A "changes" event of the batch holds an edit applied before the save.
HoldsAppliedEdit(buffered) ==
    \E i \in 1..Len(buffered) : \E j \in 1..Len(buffered[i]) :
        buffered[i][j].origin = "beforeSave"

\* C13: a save with a non-empty edit list sends textDocumentWillSave,
\* applies the edits, waits the delay and sends textDocumentSaved; the
\* textDocumentChanged of the applied edits is sent before textDocumentSaved.
C13_ChangedBeforeSaved ==
    /\ (last.op = "getEditsBeforeSave" /\ last.edits = "[edit]")
       => /\ saves[last.save].pc = "delay"
          /\ sent[Len(sent)].type # Saved
    /\ (last.op = "delay" /\ last.edits = "[edit]")
       => /\ sent[Len(sent)].type = Saved
          /\ \A s \in DOMAIN sessions :
                sessions[s].editor = last.editor
                => ~HoldsAppliedEdit(sessions[s].buffer)
          /\ \E i \in DOMAIN sent, j \in DOMAIN sent :
                /\ i < j /\ j < Len(sent)
                /\ sent[i].type = WillSave /\ sent[i].uri = last.uri
                /\ sent[j].type = Changed /\ sent[j].uri = last.uri

\* The host has no association for the URI, or the association names no
\* language server.
NoServerConfigured(uri) ==
    \/ uri \in Unassociated
    \/ getLanguageAssociation(uri).languageServerIds = <<>>

\* C14: openTextDocument with no association, no server id or an empty
\* connection string is a silent no-op: no connection, no table entry, no
\* event handler, nothing sent, and the call is over.
C14_AbsentConfigurationIsNoOp ==
    [][(\/ last'.op = "openTextDocument" /\ NoServerConfigured(last'.uri)
        \/ last'.op = "getConnectionString" /\ last'.connectionString = "")
       => /\ UNCHANGED <<editors, documentVersions, connections,
                         subscriptionDisposers, conns, sessions, sent>>
          /\ Busy' \subseteq Busy
          /\ last'.op = "getConnectionString" => last'.call \notin Busy']_vars

\* getConnectionString resolved to the empty string and the call ended
\* with nothing created.
C14_Witness ==
    /\ last.op = "getConnectionString"
    /\ last.connectionString = ""
    /\ calls[last.call].pc = "idle"
    /\ conns = <<>>
    /\ sent = <<>>

\* C15: a connect that fails raises no error in openTextDocument and leaves
\* no entry for the server in the connection table, so that a later
\* openTextDocument connects from scratch.
C15_FailedConnectLeavesNothing ==
    last.op = "connect failed"
    => /\ last.outcome # "rejected"
       /\ ~Has(connections, last.server)

\* C16: once the disposer of a subscription has been called, its
\* subscriber is never called again, also when a debounce timer was pending.
C16_NoCallbackAfterDisposal ==
    [][\A s \in Subs :
          streams.subs[s].state = "disposed"
          => streams'.subs[s].out = streams.subs[s].out]_vars

\* The subscriptions to the debounced stream, and the timers of one.
DebounceSubs ==
    {s \in Subs : streams.subs[s].state # "none"
                    /\ streams.subs[s].op = "debounceTime"}
TimersOf(s) == {t \in streams.timers : t.sub = s}

\* C17: debounce emits a value only when no newer value arrived before its
\* timer fired; every source value cancels the pending timer and starts a
\* new one; at most one timer is pending per subscription; nothing is
\* emitted inside the source callback.
C17_DebounceRestarts ==
    /\ [](\A s \in DebounceSubs : Cardinality(TimersOf(s)) <= 1)
    /\ [][\A s \in DebounceSubs :
            LET sub == streams.subs[s]
                next == streams'.subs[s]
            IN /\ next.out # sub.out
                  => /\ sub.received # <<>>
                     /\ next.out =
                           Append(sub.out, sub.received[Len(sub.received)])
               /\ next.received # sub.received
                  => /\ next.out = sub.out
                     /\ \E t \in streams'.timers :
                           /\ t.sub = s
                           /\ t.value = next.received[Len(next.received)]
                           /\ t \notin streams.timers
                           /\ \A u \in streams'.timers :
                                 u.sub = s => u = t]_vars

\* A burst of two values was collapsed into one emission of the second.
C17_Witness ==
    \E s \in DebounceSubs :
        /\ Len(streams.subs[s].received) = 2
        /\ streams.subs[s].received[1] # streams.subs[s].received[2]
        /\ streams.subs[s].out = <<streams.subs[s].received[2]>>

\* What skipDuplicates(equals) hands on of the first n values: the first,
\* and every value not equal to the one handed on before it.
RECURSIVE Kept(_, _, _)
Kept(values, equals, n) ==
    IF n = 0 THEN <<>>
    ELSE LET kept == Kept(values, equals, n - 1)
         IN IF kept = <<>> \/ ~Equals(equals, kept[Len(kept)], values[n])
            THEN Append(kept, values[n])
            ELSE kept

SkipSubs ==
    {s \in Subs : streams.subs[s].state # "none"
                    /\ streams.subs[s].op = "skipDuplicates"}

\* C18: skipDuplicates emits the first value, and a later value exactly
\* when it is not equal to the value emitted last; no two consecutive
\* emitted values are equal.
C18_SkipsAgainstLastEmitted ==
    \A s \in SkipSubs :
        LET sub == streams.subs[s]
        IN /\ sub.out = Kept(sub.received, sub.equals, Len(sub.received))
           /\ \A i \in 1..(Len(sub.out) - 1) :
                 ~Equals(sub.equals, sub.out[i], sub.out[i + 1])

\* 0, 1, 2 under a comparison by which 1 equals both 0 and 2: 1 is dropped
\* and 2, compared with 0, is emitted.
C18_Witness ==
    \E s \in SkipSubs :
        /\ streams.subs[s].equals = "near"
        /\ streams.subs[s].received = <<0, 1, 2>>
        /\ streams.subs[s].out = <<0, 2>>

\* The place of a statement in the order of closeTextDocument.
Place(steps, step) == CHOOSE i \in DOMAIN steps : steps[i] = step

\* C19: closeTextDocument invokes every subscription disposer of the editor
\* before it removes the URI from the editor table and the version table.
C19_DisposedBeforeRemoved ==
    (last.op = "closeTextDocument" /\ last.outcome = "closed")
    => /\ Place(last.steps, "removeEventHandlers")
             < Place(last.steps, "delete editors[uri]")
       /\ Place(last.steps, "removeEventHandlers")
             < Place(last.steps, "delete documentVersions[uri]")

\* The string ends with "/" and not with "//".
EndsWithOneSlash(str) ==
    /\ Len(str) >= 1
    /\ str[Len(str)] = "/"
    /\ Len(str) >= 2 => str[Len(str) - 1] # "/"

\* The path from its first character that is not "/".
FromFirstName(path) ==
    LET names == {i \in 1..Len(path) : path[i] # "/"}
    IN IF names = {} THEN <<>>
       ELSE SubSeq(path, CHOOSE i \in names : \A j \in names : i <= j,
                   Len(path))

\* C20: the stored root URI ends with exactly one "/", and getDocumentUri
\* gives the root URI followed by the path without its leading "/"s.
C20_RootEndsWithOneSlash ==
    /\ EndsWithOneSlash(rootUri)
    /\ last.op = "getDocumentUri"
       => last.uri = rootUri \o FromFirstName(last.path)

\* The contentChanges of the textDocumentChanged notifications, in the
\* order they were sent.
RECURSIVE ChangesSent(_)
ChangesSent(n) ==
    IF n = 0 THEN <<>>
    ELSE ChangesSent(n - 1)
           \o (IF sent[n].type = Changed THEN sent[n].contentChanges ELSE <<>>)

\* Every textDocumentChanged so far was sent with incremental sync.
SentIncrementally ==
    \A i \in DOMAIN sent :
        sent[i].type = Changed => sent[i].contentChanges # <<FullText>>

\* One edit comes before another in the editor.
Earlier(a, b) ==
    \/ a.line < b.line
    \/ a.line = b.line /\ a.ch < b.ch

\* C21: with incremental sync every edit appears in the contentChanges of
\* exactly one textDocumentChanged, and the edits are sent in the order in
\* which they occurred: none lost, none sent twice, none out of order.
C21_EveryEditOnceInOrder ==
    SentIncrementally
    => LET changes == ChangesSent(Len(sent))
       IN /\ \A i \in DOMAIN changes, j \in DOMAIN changes :
                i < j => Earlier(changes[i].range, changes[j].range)
          /\ \A n \in 1..emitted :
                \/ \E i \in DOMAIN changes : changes[i].range.line = n
                \/ \E s \in DOMAIN sessions :
                      \E i \in DOMAIN sessions[s].buffer :
                         sessions[s].buffer[i][1].from.line = n

\* C22: operator state is per subscription. What a subscription of a
\* skipDuplicates or debounce stream remembers, has pending and hands to its
\* subscriber changes only by the values it received itself, by its own
\* timer and by its own disposer, whatever other subscriptions exist.
C22_StatePerSubscription ==
    [][\A s \in Subs :
          LET sub == streams.subs[s]
              next == streams'.subs[s]
              timers == {t \in streams.timers : t.sub = s}
              timersNext == {t \in streams'.timers : t.sub = s}
          IN sub.state # "none"
             => IF next.received # sub.received
                THEN LET x == next.received[Len(next.received)]
                         fresh == \/ sub.prev = <<>>
                                  \/ ~Equals(sub.equals, sub.prev[1], x)
                     IN IF sub.op = "skipDuplicates"
                        THEN /\ next.prev = IF fresh THEN <<x>> ELSE sub.prev
                             /\ next.out = IF fresh THEN Append(sub.out, x)
                                           ELSE sub.out
                        ELSE /\ next.out = sub.out
                             /\ {t.value : t \in timersNext} = {x}
                             /\ Cardinality(timersNext) = 1
                ELSE /\ next.prev = sub.prev
                     /\ \/ next.out = sub.out /\ timersNext = timers
                        \/ \E t \in timers :
                              /\ timersNext = timers \ {t}
                              /\ next.out = Append(sub.out, t.value)]_vars

\* A second subscription of skipDuplicates, made after the first one took
\* 0, emitted the next 0, which the first one skipped; and a debounce
\* subscription that was disposed has its timer pending after another
\* subscription took a value.
C22_Witness ==
    \/ \E s \in SkipSubs, r \in SkipSubs :
          /\ streams.subs[s].equals = streams.subs[r].equals
          /\ streams.subs[r].received = <<0, 0>>
          /\ streams.subs[r].out = <<0>>
          /\ streams.subs[s].received = <<0>>
          /\ streams.subs[s].out = <<0>>
    \/ \E s \in DebounceSubs, r \in DebounceSubs :
          /\ streams.subs[s].state = "disposed"
          /\ Len(streams.subs[r].received) > Len(streams.subs[s].received)
          /\ TimersOf(s) # {}

\* The highlights a response carries.
Carried(result) ==
    CASE result = "[h1]" -> <<"h1">>
      [] result = "[h2]" -> <<"h2">>
      [] OTHER -> <<>>

\* C23: a debounced cursor movement over a token of type variable or
\* property issues exactly one document highlight request, and its response
\* leaves exactly its own highlights drawn; over any other token no request
\* is issued and the highlights are cleared.
C23_HighlightsOfLastResponse ==
    [][/\ last'.op = "cursor"
          => LET asked == [editor |-> last'.editor,
                           method |-> "getDocumentHighlight"]
             IN IF last'.type = <<"variable">> \/ last'.type = <<"property">>
                THEN pending' = pending (+) SetToBag({asked})
                ELSE /\ pending' = pending
                     /\ highlights'[last'.editor] = <<>>
       /\ last'.op = "highlight"
          => highlights'[last'.editor] = Carried(last'.result)]_vars

\* A response was handled while the highlights of an earlier response were
\* drawn: only the new ones are.
C23_Witness ==
    /\ last.op = "highlight"
    /\ last.previous = <<"h1">>
    /\ last.result = "[h2]"
    /\ highlights[last.editor] = <<"h2">>

\* Two positions lie on one line in the same token span.
SameSpan(p1, p2) ==
    /\ p1.line = p2.line
    /\ getTokenAt(p1).string = getTokenAt(p2).string
    /\ getTokenAt(p1).start = getTokenAt(p2).start
    /\ getTokenAt(p1).end = getTokenAt(p2).end

\* The hover request for a position of an editor.
HoverAsked(editor, pos) ==
    SetToBag({[editor |-> editor, method |-> "getHoverInfo", pos |-> pos]})

\* C24: for a position the hover stream delivers, the hover box is removed
\* first and a hover request is issued exactly when the token there is no
\* comment, has text and has a type; a position in the same token span of
\* the same line as the one delivered before is not delivered; only a
\* response that is present removes signature help and shows the hover.
C24_HoverOnTokens ==
    [][/\ last'.op = "mouse"
          => LET e == last'.editor
                 token == getTokenAt(last'.pos)
             IN /\ (last'.previous # <<>>
                      /\ SameSpan(last'.previous[1], last'.pos))
                   => ~last'.delivered
                /\ IF last'.delivered
                   THEN /\ hoverInfo'[e] = <<>>
                        /\ pending' =
                             IF /\ token.type # <<"comment">>
                                /\ token.string # ""
                                /\ token.type # <<>>
                             THEN pending (+) HoverAsked(e, last'.pos)
                             ELSE pending
                   ELSE /\ pending' = pending
                        /\ hoverInfo' = hoverInfo
       /\ last'.op = "hover"
          => IF last'.result # "null"
             THEN /\ ~signatureHelp'[last'.editor]
                  /\ hoverInfo'[last'.editor] = <<last'.pos>>
             ELSE /\ signatureHelp' = signatureHelp
                  /\ hoverInfo' = hoverInfo]_vars

\* A hover response arrived while signature help was shown: the hover box
\* is shown and signature help is not.
C24_Witness ==
    /\ last.op = "hover"
    /\ last.result = "hover"
    /\ last.signatureHelp
    /\ ~signatureHelp[last.editor]
    /\ hoverInfo[last.editor] = <<last.pos>>

\* C30: while the context menu of an editor is open (hover info disabled)
\* no hover box is shown for the editor and no hover request is issued for
\* it, also for a mouseover that came shortly before the menu opened.
C30_NoHoverWhileMenuOpen ==
    /\ [](\A e \in Editors : ~hoverInfoEnabled[e] => hoverInfo[e] = <<>>)
    /\ [][(last'.op = "mouse" /\ ~hoverInfoEnabled[last'.editor])
            => pending' = pending]_vars

\* C25: a diagnostics notification for a URI, received on an initialized
\* connection, is shown on the editor the URI is open with and changes
\* nothing else; with no editor open for the URI, also after it was closed,
\* it changes nothing.
C25_DiagnosticsToOpenEditor ==
    [][last'.op = "onDiagnostics"
        => /\ conns[last'.conn].initialized
           /\ \A e \in Editors :
                 diagnostics'[e] =
                    IF last'.uri \in DOMAIN editors /\ editors[last'.uri] = e
                    THEN <<last'.diagnostics>>
                    ELSE diagnostics[e]
           /\ UNCHANGED <<editors, connections, documentVersions,
                          subscriptionDisposers, conns, sessions, calls,
                          sent, pending, highlights, hoverInfo,
                          completionActive, signatureHelp>>]_vars

\* Diagnostics arrived for a URI that had been open and was closed: no
\* editor shows any.
C25_Witness ==
    /\ last.op = "onDiagnostics"
    /\ last.uri \notin DOMAIN editors
    /\ \E s \in DOMAIN sessions : sessions[s].uri = last.uri
    /\ \A e \in Editors : diagnostics[e] = <<>>

\* C26: whatever is sent about a document on a connection is sent after
\* the initialize request of that connection has completed and initialized
\* was sent, also for an openTextDocument issued during the handshake of
\* another one for the same server.
C26_SentAfterInitialized ==
    [][Len(sent') > Len(sent)
        => conns[sent'[Len(sent')].conn].initialized]_vars

\* C27: between operations the editor table and the version table have the
\* same keys and every version is an integer that is at least 1; no version
\* entry comes back for a URI that closeTextDocument removed.
C27_TablesAgree ==
    /\ DOMAIN editors = DOMAIN documentVersions
    /\ \A uri \in DOMAIN documentVersions : documentVersions[uri] >= 1

\* C28: when closeTextDocument ran for a URI while a saveTextDocument for it
\* was suspended, no textDocumentSaved is sent for the URI after its
\* textDocumentClosed: between the textDocumentWillSave of a save and its
\* textDocumentSaved there is no textDocumentClosed of the URI.
C28_NoSavedAfterClosed ==
    \A i \in DOMAIN sent, j \in DOMAIN sent, k \in DOMAIN sent :
        (/\ i < j /\ j < k
         /\ sent[i].type = WillSave
         /\ sent[k].type = Saved
         /\ sent[i].uri = sent[k].uri
         /\ \A n \in (i + 1)..(k - 1) : sent[n].type # WillSave)
        => ~(sent[j].type = Closed /\ sent[j].uri = sent[i].uri)

\* C29: once every opened URI has been closed and no openTextDocument is
\* in progress, every disposer addEventHandlers created has been invoked
\* and no listener or keymap of the workspace is left on an editor.
C29_NoSubscriptionLeft ==
    (last.op = "closeTextDocument" /\ Busy = {})
    => \A s \in DOMAIN sessions :
          /\ sessions[s].registered = {}
          /\ \A r \in Registrations : sessions[s].disposed[r] >= 1

\* C31: an editor that no document is open with (closeTextDocument has
\* cleared it, and it was not opened again) shows no completion popup, no
\* signature help, no hover box and no highlights, also when responses to
\* requests issued before the close arrive after it.
C31_NothingShownAfterClose ==
    \A e \in Editors :
        (\A uri \in DOMAIN editors : editors[uri] # e)
        => /\ ~completionActive[e]
           /\ ~signatureHelp[e]
           /\ hoverInfo[e] = <<>>
           /\ highlights[e] = <<>>

====
